---- MODULE Spec2Model ----
(***************************************************************************)
(* Model of python/diffusers_server/server.py: the module globals          *)
(* (pipeline, current_model, served_model_name), load_model and its        *)
(* constructor fallback chain, generate_images, the three request handlers *)
(* and main.  The diffusers constructors, the engine call and the PNG      *)
(* encoder are external and opaque: each call either returns or raises,    *)
(* chosen nondeterministically.                                            *)
(***************************************************************************)
EXTENDS Integers, Sequences, FiniteSets, TLC

VARIABLES
    pipeline,           \* global pipeline: None or Some(engine)
    current_model,      \* global current_model: None or Some(path)
    served_model_name,  \* global served_model_name: None or Some(name)
    hw,                 \* torch.cuda.is_available(), torch.backends.mps.is_available()
    mainpc,             \* position of main(), or "api" when the module is imported
    args,               \* the parsed command line
    ld,                 \* the load_model call in progress
    ldResult,           \* outcome of the last load_model call
    ctorLog,            \* constructor invocations of the last load_model call
    nbuilt,             \* engines constructed so far
    slots,              \* HTTP requests / direct calls: position and locals
    stderr,             \* lines printed to sys.stderr by main
    exitcode            \* sys.exit status

vars == <<pipeline, current_model, served_model_name, hw, mainpc, args, ld,
          ldResult, ctorLog, nbuilt, slots, stderr, exitcode>>

globals == <<pipeline, current_model, served_model_name>>

----------------------------------------------------------------------------
(* Bounds of the model *)

MaxN == 2        \* largest image count requested
MaxSeed == 1     \* largest seed supplied
MaxReq == 2      \* request slots (connections the clients hold open)
MaxBuild == 2    \* engines constructed in one run
MaxSizeLen == 4  \* longest size string passed to parse_size on its own

----------------------------------------------------------------------------
(* Optional values: Python's None and a present value *)

None == <<>>
Some(x) == <<x>>
Get(o) == o[1]

(* Python truthiness of an Optional[str] *)
Truthy(o) == o # None /\ Get(o) # <<>>

----------------------------------------------------------------------------
(* Strings are sequences of characters *)

Lower(c) ==
    CASE c = "D" -> "d"
      [] c = "U" -> "u"
      [] c = "F" -> "f"
      [] c = "X" -> "x"
      [] c = "M" -> "m"
      [] OTHER -> c

str_lower(s) == [k \in 1..Len(s) |-> Lower(s[k])]

str_endswith(s, suffix) ==
    /\ Len(s) >= Len(suffix)
    /\ SubSeq(s, Len(s) - Len(suffix) + 1, Len(s)) = suffix

P_archive == <<"m", ".", "D", "D", "U", "F">>   \* an existing regular file
P_missing == <<"n", ".", "d", "d", "u", "f">>   \* nothing at this path
P_dir == <<"d">>                            \* an existing directory
P_alias == <<"s", "d">>                       \* a served name that is no path
P_other == <<"z">>                            \* a name nobody serves

Paths == {P_archive, P_missing, P_dir}
Overrides == {None, Some(<<>>), Some(P_alias)}

os_path_isfile(p) == p = P_archive
os_path_isdir(p) == p = P_dir

is_dduf_file(path) ==
    str_endswith(str_lower(path), <<".", "d", "d", "u", "f">>) /\ os_path_isfile(path)

----------------------------------------------------------------------------
(* Exceptions: type, HTTP status (0 when not an HTTPException), message,    *)
(* __cause__ and __context__                                                *)

Exc(type, msg, context) ==
    [type |-> type, status |-> 0, msg |-> msg, cause |-> None, context |-> context]

HTTPException(status, detail) ==
    [type |-> "HTTPException", status |-> status, msg |-> detail,
     cause |-> None, context |-> None]

(* the failure of an external call: diffusers, torch, PIL *)
ExternalError(type, what) == Exc(type, <<what>>, None)

----------------------------------------------------------------------------
(* Device and precision, load_model lines 123-135 *)

(* select_device with MPS tested before CUDA *)
select_device_mps_first ==
    IF hw.mps THEN [device |-> "mps", dtype |-> "float16"]
    ELSE IF hw.cuda THEN [device |-> "cuda", dtype |-> "float16"]
    ELSE [device |-> "cpu", dtype |-> "float32"]

select_device ==
    IF hw.cuda THEN [device |-> "cuda", dtype |-> "float16"]
    ELSE IF hw.mps THEN [device |-> "mps", dtype |-> "float16"]
    ELSE [device |-> "cpu", dtype |-> "float32"]

(* An engine as built by a from_pretrained constructor *)
NewEngine(id, path, dtype, slicing) ==
    [id |-> id, path |-> path, dtype |-> dtype, device |-> "unplaced",
     has_slicing |-> slicing, sliced |-> FALSE]

(* os.path.dirname and os.path.basename: split at the last "/" *)
LastSlash(s) ==
    IF \E k \in 1..Len(s) : s[k] = "/"
    THEN CHOOSE k \in 1..Len(s) : s[k] = "/" /\ \A j \in (k+1)..Len(s) : s[j] # "/"
    ELSE 0

os_path_dirname(s) == IF LastSlash(s) <= 1 THEN SubSeq(s, 1, LastSlash(s))
                      ELSE SubSeq(s, 1, LastSlash(s) - 1)
os_path_basename(s) == SubSeq(s, LastSlash(s) + 1, Len(s))

(* One from_pretrained invocation, as the diffusers library sees it, and    *)
(* whether it returned (ok) or raised                                       *)
CtorCall(stage, ldf, ok) ==
    IF stage = "dduf"
    THEN [ctor |-> "DiffusionPipeline", path |-> os_path_dirname(ldf.model_path),
          dduf_file |-> Some(os_path_basename(ldf.model_path)),
          dtype |-> ldf.dtype, safety_checker |-> "default", ok |-> ok]
    ELSE [ctor |-> CASE stage = "auto" -> "AutoPipelineForText2Image"
                     [] stage = "sd" -> "StableDiffusionPipeline"
                     [] OTHER -> "DiffusionPipeline",
          path |-> ldf.model_path, dduf_file |-> None, dtype |-> ldf.dtype,
          safety_checker |-> IF stage = "generic" THEN "default" ELSE "disabled",
          ok |-> ok]

IdleLoad == [pc |-> "idle", model_path |-> <<>>, device |-> "", dtype |-> "",
             pipe |-> None, err |-> None, built0 |-> 0]

(* what a load_model(path) call handed back to its caller *)
NoResult == [kind |-> "none", path |-> <<>>, engine |-> None, exc |-> None]
Returned(path, e) == [kind |-> "returned", path |-> path, engine |-> Some(e), exc |-> None]
Raised(path, x) == [kind |-> "raised", path |-> path, engine |-> None, exc |-> Some(x)]

(* no handler or call is running and every answer has been taken *)
NoSlotActive == \A s \in 1..MaxReq : slots[s].pc \in {"free", "pending"}

----------------------------------------------------------------------------
(* load_model *)

(* on_ctor_error with the Stable-Diffusion constructor skipped *)
on_ctor_error_skip_sd(stage) ==
    CASE stage = "dduf" -> "raise"
      [] stage = "auto" -> "generic"
      [] stage = "sd" -> "generic"
      [] OTHER -> "raise"

(* on_ctor_error with a failed archive falling back to the directory chain *)
on_ctor_error_dduf_fallback(stage) ==
    CASE stage = "dduf" -> "auto"
      [] stage = "auto" -> "sd"
      [] stage = "sd" -> "generic"
      [] OTHER -> "raise"

(* Where control goes when the constructor of a stage raises: the packaged  *)
(* archive has no fallback (lines 108-110), the directory/remote chain      *)
(* falls through its nested handlers (lines 155-169).                       *)
on_ctor_error(stage) ==
    CASE stage = "dduf" -> "raise"
      [] stage = "auto" -> "sd"
      [] stage = "sd" -> "generic"
      [] OTHER -> "raise"

(* The exception that leaves load_model when a stage fails for good *)
load_error(stage, e) ==
    IF stage \in {"dduf", "dduf_to"}
    THEN Exc("RuntimeError", <<"Failed to load DDUF file: ">> \o e.msg, Some(e))
    ELSE e

(* load_model_cached without the comparison of the path *)
load_model_cached_any_path(model_path) == pipeline # None

(* lines 113-141: the resident-path shortcut, device selection and source   *)
(* classification, up to the first constructor call                         *)
load_model_cached(model_path) == pipeline # None /\ current_model = Some(model_path)

load_model_first_stage(model_path) == IF is_dduf_file(model_path) THEN "dduf" ELSE "auto"

load_model(model_path) ==
    /\ ld.pc = "idle"
    /\ NoSlotActive
    /\ ctorLog' = <<>>
    /\ IF load_model_cached(model_path)
       THEN /\ ldResult' = Returned(model_path, Get(pipeline))
            /\ UNCHANGED ld
       ELSE /\ nbuilt < MaxBuild
            /\ ldResult' = NoResult
            /\ ld' = [pc |-> load_model_first_stage(model_path), model_path |-> model_path,
                      device |-> select_device.device, dtype |-> select_device.dtype,
                      pipe |-> None, err |-> None, built0 |-> nbuilt]
    /\ UNCHANGED <<globals, hw, nbuilt, slots, stderr, exitcode>>

(* One constructor invocation: lines 98-102, 149-154, 158-163 or 166-169 *)
from_pretrained(stage) ==
    /\ ld.pc = stage
    /\ \E ok \in BOOLEAN, slicing \in BOOLEAN :
       /\ ctorLog' = Append(ctorLog, CtorCall(stage, ld, ok))
       /\ IF ok
         THEN LET eng == NewEngine(nbuilt + 1, ld.model_path, ld.dtype, slicing)
              IN  /\ nbuilt' = nbuilt + 1
                  /\ ldResult' = ldResult
                  /\ IF stage = "dduf"
                     THEN /\ ld' = [ld EXCEPT !.pc = "dduf_to", !.pipe = Some(eng)]
                          /\ pipeline' = pipeline
                     ELSE /\ ld' = [ld EXCEPT !.pc = "to"]
                          /\ pipeline' = Some(eng)
         ELSE LET e == [ExternalError("OSError", stage) EXCEPT !.context = ld.err]
              IN  /\ slicing = FALSE
                  /\ UNCHANGED <<nbuilt, pipeline>>
                  /\ IF on_ctor_error(stage) = "raise"
                     THEN /\ ldResult' = Raised(ld.model_path, load_error(stage, e))
                          /\ ld' = IdleLoad
                     ELSE /\ ldResult' = ldResult
                          /\ ld' = [ld EXCEPT !.pc = on_ctor_error(stage), !.err = Some(e)]
    /\ UNCHANGED <<current_model, served_model_name, hw, mainpc, args, slots, stderr, exitcode>>

DiffusionPipeline_from_dduf == from_pretrained("dduf")
AutoPipelineForText2Image_from_pretrained == from_pretrained("auto")
StableDiffusionPipeline_from_pretrained == from_pretrained("sd")
DiffusionPipeline_from_pretrained == from_pretrained("generic")

(* load_model_from_dduf lines 104-110 and load_model lines 139-141 *)
dduf_to_device ==
    /\ ld.pc = "dduf_to"
    /\ \E ok \in BOOLEAN :
         IF ok
         THEN /\ pipeline' = Some([Get(ld.pipe) EXCEPT !.device = ld.device])
              /\ current_model' = Some(ld.model_path)
              /\ ldResult' = Returned(ld.model_path, [Get(ld.pipe) EXCEPT !.device = ld.device])
         ELSE /\ ldResult' = Raised(ld.model_path,
                                    load_error("dduf_to", ExternalError("RuntimeError", "to")))
              /\ UNCHANGED <<pipeline, current_model>>
    /\ ld' = IdleLoad
    /\ UNCHANGED <<served_model_name, hw, mainpc, args, ctorLog, nbuilt, slots, stderr, exitcode>>

(* line 171: pipeline = pipeline.to(device) *)
pipeline_to_device ==
    /\ ld.pc = "to"
    /\ \E ok \in BOOLEAN :
         IF ok
         THEN /\ pipeline' = Some([Get(pipeline) EXCEPT !.device = ld.device])
              /\ ld' = [ld EXCEPT !.pc = "finish"]
              /\ ldResult' = ldResult
         ELSE /\ ldResult' = Raised(ld.model_path, ExternalError("RuntimeError", "to"))
              /\ ld' = IdleLoad
              /\ pipeline' = pipeline
    /\ UNCHANGED <<current_model, served_model_name, hw, mainpc, args, ctorLog, nbuilt,
                   slots, stderr, exitcode>>

(* lines 173-179: attention slicing when the engine has it, then publish *)
load_model_finish ==
    /\ ld.pc = "finish"
    /\ \E ok \in BOOLEAN :
         IF Get(pipeline).has_slicing /\ ~ok
         THEN /\ ldResult' = Raised(ld.model_path,
                                    ExternalError("RuntimeError", "enable_attention_slicing"))
              /\ UNCHANGED <<pipeline, current_model>>
         ELSE /\ ok
              /\ pipeline' = IF Get(pipeline).has_slicing
                             THEN Some([Get(pipeline) EXCEPT !.sliced = TRUE])
                             ELSE pipeline
              /\ current_model' = Some(ld.model_path)
              /\ ldResult' = Returned(ld.model_path, Get(pipeline'))
    /\ ld' = IdleLoad
    /\ UNCHANGED <<served_model_name, hw, mainpc, args, ctorLog, nbuilt, slots, stderr, exitcode>>

LoadSteps ==
    \/ DiffusionPipeline_from_dduf
    \/ AutoPipelineForText2Image_from_pretrained
    \/ StableDiffusionPipeline_from_pretrained
    \/ DiffusionPipeline_from_pretrained
    \/ dduf_to_device
    \/ pipeline_to_device
    \/ load_model_finish

----------------------------------------------------------------------------
(* parse_size, lines 63-73 *)

Digits == {"0", "1", "2", "3", "4", "5", "6", "7", "8", "9"}

DigitVal(c) ==
    CASE c = "0" -> 0 [] c = "1" -> 1 [] c = "2" -> 2 [] c = "3" -> 3 [] c = "4" -> 4
      [] c = "5" -> 5 [] c = "6" -> 6 [] c = "7" -> 7 [] c = "8" -> 8 [] OTHER -> 9

RECURSIVE str_strip(_)
str_strip(s) ==
    IF s = <<>> THEN s
    ELSE IF Head(s) = " " THEN str_strip(Tail(s))
    ELSE IF s[Len(s)] = " " THEN str_strip(SubSeq(s, 1, Len(s) - 1))
    ELSE s

(* str.split with a one-character separator: the parts between separators *)
RECURSIVE str_split(_, _)
str_split(s, sep) ==
    IF \E k \in 1..Len(s) : s[k] = sep
    THEN LET k == CHOOSE j \in 1..Len(s) : s[j] = sep /\ \A m \in 1..(j-1) : s[m] # sep
         IN  <<SubSeq(s, 1, k - 1)>> \o str_split(SubSeq(s, k + 1, Len(s)), sep)
    ELSE <<s>>

RECURSIVE digits_value(_)
digits_value(d) ==
    IF d = <<>> THEN 0 ELSE 10 * digits_value(SubSeq(d, 1, Len(d) - 1)) + DigitVal(d[Len(d)])

(* Python's int(str): surrounding blanks, an optional sign, decimal digits *)
int_body(s) ==
    LET t == str_strip(s) IN IF t # <<>> /\ t[1] \in {"+", "-"} THEN Tail(t) ELSE t

int_ok(s) == int_body(s) # <<>> /\ \A k \in 1..Len(int_body(s)) : int_body(s)[k] \in Digits

int_of(s) ==
    LET t == str_strip(s)
    IN  IF t[1] = "-" THEN 0 - digits_value(int_body(s)) ELSE digits_value(int_body(s))

parse_size_ok(size) ==
    LET parts == str_split(str_lower(size), "x")
    IN  Len(parts) = 2 /\ int_ok(parts[1]) /\ int_ok(parts[2])

parse_size(size) ==
    LET parts == str_split(str_lower(size), "x")
    IN  <<int_of(parts[1]), int_of(parts[2])>>

parse_size_error(size) ==
    Exc("ValueError", <<"Invalid size format '">> \o size
                       \o <<"'. Expected format like '512x512'">>, None)

S_2x3 == <<"2", "X", "3">>
S_23 == <<"2", "3">>

Sizes == {S_2x3, S_23}

----------------------------------------------------------------------------
(* Requests, engine calls and images *)

Seeds == {None} \cup {Some(k) : k \in 0..MaxSeed}
Formats == {"b64_json", "url"}
RequestModels == {P_alias, P_dir, P_other}

(* The engine is opaque: the image it returns is named by the call that made it *)
engine_image(call) == [made_by |-> call]

Requests == [model : RequestModels, n : 1..MaxN, size : Sizes,
             response_format : Formats, seed : Seeds]

(* image.save(buffer, format="PNG") and base64.b64encode *)
png_encode(image) == <<"PNG", image>>
b64encode(bytes) == <<"b64">> \o bytes

FreeSlot == [pc |-> "free", kind |-> "", req |-> None, parsed |-> FALSE,
             width |-> 0, height |-> 0,
             i |-> 0, images |-> <<>>, calls |-> <<>>, resp |-> None]

Response(status, data, exc) == [status |-> status, data |-> data, exc |-> exc]

(* an HTTPException raised out of a handler becomes the response *)
HttpError(e) == Response(e.status, <<>>, Some(e))

(* str(e): starlette prints an HTTPException as "<status>: <detail>" *)
str_exc(e) == IF e.type = "HTTPException" THEN <<e.status, ": ">> \o e.msg ELSE e.msg

(* create_image lines 321-325: what the handler raises for an exception     *)
(* that leaves the try block                                                *)
create_image_except(e) ==
    IF e.type = "ValueError"
    THEN HTTPException(400, str_exc(e))
    ELSE HTTPException(500, <<"Image generation failed: ">> \o str_exc(e))

(* LoopIdle for handlers run on a thread pool instead of the event loop *)
LoopIdle_threadpool == TRUE

(* no_model_loaded with the readiness test left out *)
no_model_loaded_unchecked == FALSE

(* lines 195 and 284: pipeline is None *)
no_model_loaded == pipeline = None

(* The event loop runs one coroutine at a time and the handlers never await *)
LoopIdle == \A s \in 1..MaxReq : slots[s].pc \notin {"gen", "format"}

(* accepting for a server started before the model is loaded *)
accepting_before_load ==
    mainpc \in {"loading", "serving"}
        \/ (mainpc = "api" /\ ld.pc = "idle" /\ ldResult.kind = "none")

(* uvicorn.run is reached only after load_model has returned (line 355);    *)
(* an importing caller drives the functions one call at a time              *)
accepting == mainpc = "serving" \/ (mainpc = "api" /\ ld.pc = "idle" /\ ldResult.kind = "none")

(* a request waits on its connection; an importing caller calls directly *)
Ready(s) == IF mainpc = "api" THEN s = 1 /\ slots[s].pc = "free" ELSE slots[s].pc = "pending"

Dispatchable(s) ==
    /\ Ready(s)
    /\ accepting
    /\ LoopIdle
    /\ \A t \in 1..MaxReq : slots[t].pc # "answered"

Answer(s, kind, req, resp) ==
    slots' = [slots EXCEPT ![s] = [FreeSlot EXCEPT !.pc = "answered", !.kind = kind,
                                                   !.req = req, !.resp = Some(resp)]]

(* A client opens a connection and sends a request *)
Arrive(s) ==
    /\ slots[s].pc = "free"
    /\ mainpc \notin {"exited", "api"}
    /\ slots' = [slots EXCEPT ![s].pc = "pending"]
    /\ UNCHANGED <<globals, hw, mainpc, args, ld, ldResult, ctorLog, nbuilt, stderr, exitcode>>

(* The client has read the response *)
Close(s) ==
    /\ slots[s].pc = "answered"
    /\ slots' = [slots EXCEPT ![s] = FreeSlot]
    /\ UNCHANGED <<globals, hw, mainpc, args, ld, ldResult, ctorLog, nbuilt, stderr, exitcode>>

(* lines 244-247 *)
health(s) ==
    /\ Dispatchable(s)
    /\ Answer(s, "health", None,
              Response(200, <<[status |-> "healthy", model_loaded |-> current_model # None]>>, None))
    /\ UNCHANGED <<globals, hw, mainpc, args, ld, ldResult, ctorLog, nbuilt, stderr, exitcode>>

(* lines 250-268 *)
list_models(s) ==
    /\ Dispatchable(s)
    /\ Answer(s, "list_models", None,
              Response(200,
                  (IF Truthy(served_model_name) THEN <<Get(served_model_name)>> ELSE <<>>)
                  \o (IF Truthy(current_model) /\ current_model # served_model_name
                      THEN <<Get(current_model)>> ELSE <<>>),
                  None))
    /\ UNCHANGED <<globals, hw, mainpc, args, ld, ldResult, ctorLog, nbuilt, stderr, exitcode>>

(* model_mismatch comparing with the served name alone *)
model_mismatch_served_only(requested_model) ==
    /\ Truthy(served_model_name)
    /\ Some(requested_model) # served_model_name

(* line 278: the model-mismatch test *)
model_mismatch(requested_model) ==
    /\ Truthy(served_model_name)
    /\ Some(requested_model) # served_model_name
    /\ Some(requested_model) # current_model

(* generate_images lines 193-211: entering the loop with the loaded engine *)
EnterLoop(s, kind, req, w, h) ==
    slots' = [slots EXCEPT ![s] = [FreeSlot EXCEPT !.pc = "gen", !.kind = kind,
                                   !.req = Some(req), !.width = w, !.height = h,
                                   !.parsed = (kind = "create_image")]]

(* create_image_checks with the readiness test made first *)
create_image_checks_ready_first(req) ==
    IF no_model_loaded THEN "not_ready"
    ELSE IF model_mismatch(req.model) THEN "mismatch"
    ELSE IF ~parse_size_ok(req.size) THEN "bad_size"
    ELSE "generate"

(* lines 276-289: the first check of the handler that stops the request *)
create_image_checks(req) ==
    IF model_mismatch(req.model) THEN "mismatch"
    ELSE IF no_model_loaded THEN "not_ready"
    ELSE IF ~parse_size_ok(req.size) THEN "bad_size"
    ELSE "generate"

(* create_image lines 272-301 and generate_images lines 193-211 *)
create_image(s) ==
    /\ Dispatchable(s)
    /\ \E req \in Requests :
         IF create_image_checks(req) = "mismatch"
         THEN Answer(s, "create_image", Some(req),
                     HttpError(HTTPException(421, <<"Model not loaded">>)))
         ELSE IF create_image_checks(req) = "not_ready"
         THEN Answer(s, "create_image", Some(req),
                     HttpError(HTTPException(503, <<"No model loaded. Server is not ready.">>)))
         ELSE IF create_image_checks(req) = "bad_size"
         THEN slots' = [slots EXCEPT ![s] = [FreeSlot EXCEPT
                           !.pc = "answered", !.kind = "create_image", !.req = Some(req),
                           !.parsed = TRUE,
                           !.resp = Some(HttpError(create_image_except(
                                             parse_size_error(req.size))))]]
         ELSE EnterLoop(s, "create_image", req, parse_size(req.size)[1], parse_size(req.size)[2])
    /\ UNCHANGED <<globals, hw, mainpc, args, ld, ldResult, ctorLog, nbuilt, stderr, exitcode>>

(* current_generator with the seed not advanced per image *)
current_generator_fixed(seed, i) == IF seed # None THEN Some(Get(seed)) ELSE None

(* lines 214-221: the generator handed to the engine for image i *)
current_generator(seed, i) == IF seed # None THEN Some(Get(seed) + i) ELSE None

(* generate_images_raise handing over the images made before the failure *)
generate_images_raise_partial(sl, e) ==
    IF sl.kind = "create_image"
    THEN [HttpError(create_image_except(e)) EXCEPT !.data = sl.images]
    ELSE Response(0, sl.images, Some(e))

(* what generate_images' caller gets when it raises *)
generate_images_raise(sl, e) ==
    IF sl.kind = "create_image" THEN HttpError(create_image_except(e))
    ELSE Response(0, <<>>, Some(e))

(* lines 212-238: one iteration; the engine call or the encoder may raise *)
generate_images_step(s) ==
    LET sl == slots[s]
        req == Get(sl.req)
        call == [index |-> sl.i, generator |-> current_generator(req.seed, sl.i),
                 width |-> sl.width, height |-> sl.height,
                 engine |-> IF pipeline = None THEN 0 ELSE Get(pipeline).id]
        Fail(e) == slots' = [slots EXCEPT ![s].pc = "answered",
                                          ![s].calls = Append(sl.calls, call),
                                          ![s].images = <<>>,
                                          ![s].resp = Some(generate_images_raise(sl, e))]
    IN  /\ sl.pc = "gen"
        /\ sl.i < req.n
        /\ \/ slots' = [slots EXCEPT ![s].i = sl.i + 1,
                                     ![s].calls = Append(sl.calls, call),
                                     ![s].images = Append(sl.images,
                                                          png_encode(engine_image(call)))]
           \/ \E type \in {"ValueError", "RuntimeError"} : Fail(ExternalError(type, "engine"))
           \/ Fail(ExternalError("OSError", "save"))
        /\ UNCHANGED <<globals, hw, mainpc, args, ld, ldResult, ctorLog, nbuilt, stderr, exitcode>>

(* lines 240-241: the loop is over, the list goes back to the caller *)
generate_images_return(s) ==
    LET sl == slots[s]
    IN  /\ sl.pc = "gen"
        /\ sl.i = Get(sl.req).n
        /\ IF sl.kind = "create_image"
           THEN slots' = [slots EXCEPT ![s].pc = "format"]
           ELSE slots' = [slots EXCEPT ![s].pc = "answered",
                                       ![s].resp = Some(Response(0, sl.images, None))]
        /\ UNCHANGED <<globals, hw, mainpc, args, ld, ldResult, ctorLog, nbuilt, stderr, exitcode>>

(* create_image lines 303-325: the response envelope *)
create_image_format(s) ==
    LET sl == slots[s]
        req == Get(sl.req)
    IN  /\ sl.pc = "format"
        /\ IF req.response_format = "b64_json"
           THEN slots' = [slots EXCEPT ![s].pc = "answered",
                     ![s].resp = Some(Response(200,
                          [k \in 1..Len(sl.images) |-> b64encode(sl.images[k])], None))]
           ELSE slots' = [slots EXCEPT ![s].pc = "answered",
                     ![s].resp = Some(HttpError(create_image_except(
                          HTTPException(400, <<"URL response format is not supported.">>))))]
        /\ UNCHANGED <<globals, hw, mainpc, args, ld, ldResult, ctorLog, nbuilt, stderr, exitcode>>

(* A direct call of generate_images by an importing caller, lines 182-211 *)
generate_images(s) ==
    /\ mainpc = "api"
    /\ Dispatchable(s)
    /\ \E n \in 1..MaxN, seed \in Seeds :
         LET req == [model |-> P_other, n |-> n, size |-> S_2x3,
                     response_format |-> "b64_json", seed |-> seed]
         IN  IF no_model_loaded
             THEN Answer(s, "generate_images", Some(req),
                         Response(0, <<>>, Some(Exc("RuntimeError", <<"No model loaded">>, None))))
             ELSE EnterLoop(s, "generate_images", req, 2, 3)
    /\ UNCHANGED <<globals, hw, mainpc, args, ld, ldResult, ctorLog, nbuilt, stderr, exitcode>>

----------------------------------------------------------------------------
(* main, lines 336-370 *)

(* served_name_for ignoring the override *)
served_name_for_path_only(override, model_path) == Some(model_path)

(* line 347 *)
served_name_for(override, model_path) == IF Truthy(override) THEN override ELSE Some(model_path)

NoArgs == [model_path |-> <<>>, served_model_name |-> None]

(* lines 344-347: parse the command line, set served_model_name *)
main_parse_args ==
    /\ mainpc = "start"
    /\ \E p \in Paths, o \in Overrides :
         /\ args' = [model_path |-> p, served_model_name |-> o]
         /\ served_model_name' = served_name_for(o, p)
    /\ mainpc' = "load"
    /\ UNCHANGED <<pipeline, current_model, hw, ld, ldResult, ctorLog, nbuilt, slots,
                   stderr, exitcode>>

(* line 351 *)
main_load_model ==
    /\ mainpc = "load"
    /\ load_model(args.model_path)
    /\ mainpc' = "loading"
    /\ args' = args

(* lines 354-355: load_model returned, uvicorn.run starts serving *)
main_run_server ==
    /\ mainpc = "loading"
    /\ ld.pc = "idle"
    /\ ldResult.kind = "returned"
    /\ mainpc' = "serving"
    /\ ldResult' = NoResult
    /\ ctorLog' = <<>>
    /\ UNCHANGED <<globals, hw, args, ld, nbuilt, slots, stderr, exitcode>>

(* lines 358-364: the message main prints for an exception *)
RECURSIVE root_cause(_)
root_cause(e) == IF e.cause # None THEN root_cause(Get(e.cause)) ELSE e

error_msg(e) == str_exc(root_cause(e))

(* diagnostic without the fixed prefix *)
diagnostic_no_prefix(e) == error_msg(e)

(* line 369: the line printed to sys.stderr *)
diagnostic(e) == <<"DIFFUSERS_ERROR: ">> \o error_msg(e)

(* lines 356-370 *)
main_except ==
    /\ mainpc = "loading"
    /\ ld.pc = "idle"
    /\ ldResult.kind = "raised"
    /\ stderr' = Append(stderr, diagnostic(Get(ldResult.exc)))
    /\ exitcode' = 1
    /\ mainpc' = "exited"
    /\ ldResult' = NoResult
    /\ ctorLog' = <<>>
    /\ UNCHANGED <<globals, hw, args, ld, nbuilt, slots>>

(* a load_model call by an importing caller *)
api_load_model ==
    /\ mainpc = "api"
    /\ ldResult.kind = "none"
    /\ \E p \in Paths : load_model(p)
    /\ UNCHANGED <<mainpc, args>>

(* the importing caller takes load_model's return value or exception *)
api_load_model_done ==
    /\ mainpc = "api"
    /\ ld.pc = "idle"
    /\ ldResult.kind # "none"
    /\ ldResult' = NoResult
    /\ ctorLog' = <<>>
    /\ UNCHANGED <<globals, hw, mainpc, args, ld, nbuilt, slots, stderr, exitcode>>

----------------------------------------------------------------------------
(* Specifications *)

Hardware == [cuda : BOOLEAN, mps : BOOLEAN]

InitCommon ==
    /\ pipeline = None
    /\ current_model = None
    /\ hw \in Hardware
    /\ args = NoArgs
    /\ ld = IdleLoad
    /\ ldResult = NoResult
    /\ ctorLog = <<>>
    /\ nbuilt = 0
    /\ slots = [s \in 1..MaxReq |-> FreeSlot]
    /\ stderr = <<>>
    /\ exitcode = 0

(* The process started as a program: python server.py --model-path ... *)
Init ==
    /\ InitCommon
    /\ served_model_name = None
    /\ mainpc = "start"

Server ==
    \E s \in 1..MaxReq :
        \/ Close(s)
        \/ health(s)
        \/ list_models(s)
        \/ create_image(s)
        \/ generate_images_step(s)
        \/ generate_images_return(s)
        \/ create_image_format(s)

Next ==
    \/ main_parse_args
    \/ main_load_model
    \/ main_run_server
    \/ main_except
    \/ LoadSteps
    \/ \E s \in 1..MaxReq : Arrive(s)
    \/ Server

Spec == Init /\ [][Next]_vars

(* The module imported: its functions and handlers called one at a time,    *)
(* with the served name a configuration the caller may have set             *)
InitApi ==
    /\ InitCommon
    /\ served_model_name \in {None, Some(P_alias)}
    /\ mainpc = "api"

NextApi ==
    \/ api_load_model
    \/ api_load_model_done
    \/ LoadSteps
    \/ Server
    \/ \E s \in 1..MaxReq : generate_images(s)

SpecApi == InitApi /\ [][NextApi]_vars

(* parse_size called on its own: the strings a caller can pass as size *)
SizeAlphabet == {"2", "0", "x", "X", "-", "+", " ", "a"}
SizeStrings == UNION {[1..k -> SizeAlphabet] : k \in 0..MaxSizeLen}

(* lines 63-73: the call returns the pair or raises ValueError *)
parse_size_call(s) ==
    /\ mainpc = "parse"
    /\ slots[s].pc = "pending"
    /\ LET size == Get(slots[s].req).size
       IN  Answer(s, "parse_size", slots[s].req,
                  IF parse_size_ok(size)
                  THEN Response(0, parse_size(size), None)
                  ELSE Response(0, <<>>, Some(parse_size_error(size))))
    /\ UNCHANGED <<globals, hw, mainpc, args, ld, ldResult, ctorLog, nbuilt, stderr, exitcode>>

InitParse ==
    /\ pipeline = None
    /\ current_model = None
    /\ served_model_name = None
    /\ hw = [cuda |-> FALSE, mps |-> FALSE]
    /\ mainpc = "parse"
    /\ args = NoArgs
    /\ ld = IdleLoad
    /\ ldResult = NoResult
    /\ ctorLog = <<>>
    /\ nbuilt = 0
    /\ \E size \in SizeStrings :
         slots = [s \in 1..MaxReq |->
                    IF s = 1
                    THEN [FreeSlot EXCEPT !.pc = "pending", !.kind = "parse_size",
                                          !.req = Some([model |-> P_other, n |-> 1, size |-> size,
                                                        response_format |-> "b64_json",
                                                        seed |-> None])]
                    ELSE FreeSlot]
    /\ stderr = <<>>
    /\ exitcode = 0

NextParse ==
    \/ \E s \in 1..MaxReq : parse_size_call(s)
    \/ \E s \in 1..MaxReq : Close(s)

SpecParse == InitParse /\ [][NextParse]_vars

----------------------------------------------------------------------------
(* Properties *)

Last(q) == q[Len(q)]

(* the load_model call in progress, or finished and not yet taken by its caller *)
LoadActive == ld.pc # "idle" \/ ldResult.kind # "none"
LoadPath == IF ld.pc # "idle" THEN ld.model_path ELSE ldResult.path

ChainOrder == <<"AutoPipelineForText2Image", "StableDiffusionPipeline", "DiffusionPipeline">>
ChainStage == <<"auto", "sd", "generic">>

AllThreeRaised == Len(ctorLog) = 3 /\ \A k \in 1..3 : ~ctorLog[k].ok

(* For a path that is no existing archive the constructors are invoked in   *)
(* the order Auto, StableDiffusion, Diffusion, each on the model path; an   *)
(* invocation follows only failed ones, a failure is followed by the next   *)
(* constructor, a success by none.                                          *)
ChainShape ==
    (LoadActive /\ ~is_dduf_file(LoadPath)) =>
        /\ Len(ctorLog) <= 3
        /\ \A k \in 1..Len(ctorLog) :
              /\ ctorLog[k].ctor = ChainOrder[k]
              /\ ctorLog[k].path = LoadPath
              /\ ctorLog[k].dduf_file = None
        /\ \A k \in 1..(Len(ctorLog) - 1) : ~ctorLog[k].ok
        /\ (ld.pc # "idle" /\ (ctorLog = <<>> \/ ~Last(ctorLog).ok))
              => (Len(ctorLog) < 3 /\ ld.pc = ChainStage[Len(ctorLog) + 1])
        /\ (ld.pc # "idle" /\ ctorLog # <<>> /\ Last(ctorLog).ok) => ld.pc \in {"to", "finish"}
        /\ (ldResult.kind = "returned" /\ ctorLog # <<>>) => Last(ctorLog).ok

(* C1 as stated: the constructors of a non-archive path run in the strict   *)
(* order Auto, StableDiffusion, Diffusion, the first success ends the chain *)
(* and load_model fails only if all three constructors raised.              *)
C1_Original ==
    /\ ChainShape
    /\ (LoadActive /\ ~is_dduf_file(LoadPath) /\ ldResult.kind = "raised") => AllThreeRaised

(* C1 amended: the constructors of a non-archive path run in the strict     *)
(* order Auto, StableDiffusion, Diffusion, the first success ends the chain *)
(* and load_model fails only if all three constructors raised or, after a   *)
(* constructor succeeded, the device move or enabling attention slicing     *)
(* raised.                                                                  *)
C1_FallbackChain ==
    /\ ChainShape
    /\ (LoadActive /\ ~is_dduf_file(LoadPath) /\ ldResult.kind = "raised") =>
          \/ AllThreeRaised
          \/ /\ Last(ctorLog).ok
             /\ Get(ldResult.exc).msg \in {<<"to">>, <<"enable_attention_slicing">>}

(* the third constructor succeeded after the first two raised *)
C1_Witness ==
    /\ ldResult.kind = "returned"
    /\ Len(ctorLog) = 3
    /\ ~ctorLog[1].ok /\ ~ctorLog[2].ok /\ ctorLog[3].ok
    /\ ~is_dduf_file(ldResult.path)

(* C2: while load_model works on a path that is an existing archive, no     *)
(* directory/remote constructor is invoked, a failing constructor or device *)
(* move ends the call at once with an error, and pipeline and current_model *)
(* change only in the step that returns successfully.                       *)
C2_ArchiveFailureFatal ==
    [][(ld.pc # "idle" /\ is_dduf_file(ld.model_path)) =>
          /\ \A k \in 1..Len(ctorLog') :
                ctorLog'[k].dduf_file # None /\ ctorLog'[k].ctor = "DiffusionPipeline"
          /\ Len(ctorLog') <= 1
          /\ (ctorLog' # ctorLog /\ ~Last(ctorLog').ok)
                => (ld'.pc = "idle" /\ ldResult'.kind = "raised")
          /\ ldResult'.kind = "raised"
                => (ld'.pc = "idle" /\ Get(ldResult'.exc).type = "RuntimeError")
          /\ ldResult'.kind # "returned"
                => (pipeline' = pipeline /\ current_model' = current_model)
          /\ ld'.pc \in {"idle", "dduf_to"}
      ]_vars

(* an archive load has failed while an engine for another path stays resident *)
C2_Witness ==
    /\ ldResult.kind = "raised"
    /\ is_dduf_file(ldResult.path)
    /\ Len(ctorLog) = 1 /\ ~ctorLog[1].ok
    /\ pipeline # None
    /\ current_model # None /\ current_model # Some(ldResult.path)

GenKinds == {"create_image", "generate_images"}

(* generate_images has handed its list back: to create_image, or to a direct caller *)
GenReturned(sl) ==
    \/ sl.pc = "format"
    \/ sl.pc = "answered" /\ sl.kind = "create_image" /\ Len(sl.calls) = Get(sl.req).n
                          /\ Len(sl.images) = Get(sl.req).n
    \/ sl.pc = "answered" /\ sl.kind = "generate_images" /\ Get(sl.resp).exc = None

(* C3: in every generate_images call the engine invocations made so far are *)
(* those of the indices 0, 1, 2, ... in that order, with a supplied seed S  *)
(* the invocation of index i gets a generator seeded S + i, and when the    *)
(* call returns there are n invocations and the i-th returned element is    *)
(* the PNG encoding of the image the i-th invocation produced.              *)
C3_SeedProgression ==
    \A s \in 1..MaxReq :
        LET sl == slots[s]
        IN  (sl.kind \in GenKinds /\ sl.req # None) =>
              LET req == Get(sl.req)
              IN  /\ Len(sl.calls) <= req.n
                  /\ \A k \in 1..Len(sl.calls) :
                        /\ sl.calls[k].index = k - 1
                        /\ req.seed # None =>
                              sl.calls[k].generator = Some(Get(req.seed) + (k - 1))
                        /\ req.seed = None => sl.calls[k].generator = None
                  /\ sl.pc = "gen" => Len(sl.calls) = sl.i /\ Len(sl.images) = sl.i
                  /\ \A k \in 1..Len(sl.images) :
                        sl.images[k] = <<"PNG", [made_by |-> sl.calls[k]]>>
                  /\ GenReturned(sl) =>
                        /\ Len(sl.calls) = req.n
                        /\ Len(sl.images) = req.n
                  /\ (sl.pc = "answered" /\ sl.kind = "generate_images"
                        /\ Get(sl.resp).exc = None) => Get(sl.resp).data = sl.images

(* a seeded call for several images has returned its list *)
C3_Witness ==
    \E s \in 1..MaxReq :
        /\ slots[s].pc = "format"
        /\ Get(slots[s].req).seed = Some(1)
        /\ Get(slots[s].req).n >= 2
        /\ Len(slots[s].calls) = Get(slots[s].req).n

(* C4: a finished generation call has either handed its caller exactly n    *)
(* images and no error, or an error and no image at all, whatever had been  *)
(* produced before the failure.                                             *)
C4_AllOrNothing ==
    \A s \in 1..MaxReq :
        LET sl == slots[s]
        IN  /\ (sl.pc = "format") => Len(sl.images) = Get(sl.req).n
            /\ (sl.pc = "answered" /\ sl.kind \in GenKinds) =>
                  LET r == Get(sl.resp)
                      n == Get(sl.req).n
                  IN  \/ /\ r.exc = None
                         /\ Len(r.data) = n
                         /\ sl.kind = "create_image" => r.status = 200
                      \/ /\ r.exc # None
                         /\ r.data = <<>>
                         /\ sl.kind = "create_image" => r.status \in 400..599
                         /\ sl.kind = "generate_images" => r.status = 0

(* a call failed at a later index, after an earlier image had been produced *)
C4_Witness ==
    \E s \in 1..MaxReq :
        /\ slots[s].pc = "answered"
        /\ slots[s].kind = "generate_images"
        /\ Len(slots[s].calls) >= 2
        /\ Len(slots[s].calls) <= Get(slots[s].req).n
        /\ Get(slots[s].resp).exc # None
        /\ Get(slots[s].resp).data = <<>>

(* C5: at most one generate_images call is between its start and its       *)
(* return or failure.                                                       *)
C5_OneInference ==
    Cardinality({s \in 1..MaxReq : slots[s].pc = "gen"}) <= 1

(* a request has arrived and waits while another one is generating *)
C5_Witness ==
    \E s, t \in 1..MaxReq :
        /\ slots[s].pc = "gen" /\ slots[s].i >= 1
        /\ slots[t].pc = "pending"

(* the step in which slot s is taken up by a handler or a direct call *)
DispatchStep(s) ==
    /\ slots[s].pc \in {"free", "pending"}
    /\ slots'[s].pc \notin {"free", "pending"}

NotReadyOutcome(s) ==
    /\ slots'[s].pc = "answered"
    /\ slots'[s].calls = <<>>
    /\ slots'[s].images = <<>>
    /\ ~slots'[s].parsed
    /\ Get(slots'[s].resp).data = <<>>
    /\ UNCHANGED <<pipeline, current_model, served_model_name>>
    /\ slots'[s].kind = "generate_images" =>
          /\ Get(Get(slots'[s].resp).exc).type = "RuntimeError"
          /\ Get(Get(slots'[s].resp).exc).msg = <<"No model loaded">>

(* C6 as stated: with pipeline unset a generation call fails with the       *)
(* engine-not-ready error (RuntimeError from generate_images, 503 from      *)
(* create_image), invokes no engine, parses nothing, changes no global.     *)
C6_Original ==
    [][\A s \in 1..MaxReq :
          (pipeline = None /\ DispatchStep(s) /\ slots'[s].kind \in GenKinds) =>
              /\ NotReadyOutcome(s)
              /\ slots'[s].kind = "create_image" => Get(slots'[s].resp).status = 503
      ]_vars

(* C6 amended: with pipeline unset a generation call fails without invoking *)
(* the engine, parsing or changing a global; generate_images raises         *)
(* RuntimeError 'No model loaded', create_image answers 503, except that a  *)
(* request whose model differs from a declared served name and from         *)
(* current_model is answered 421 by the mismatch check that runs first.     *)
C6_NotReady ==
    [][\A s \in 1..MaxReq :
          (pipeline = None /\ DispatchStep(s) /\ slots'[s].kind \in GenKinds) =>
              /\ NotReadyOutcome(s)
              /\ slots'[s].kind = "create_image" =>
                    Get(slots'[s].resp).status =
                        IF /\ served_model_name \notin {None, Some(<<>>)}
                           /\ Some(Get(slots'[s].req).model) # served_model_name
                           /\ Some(Get(slots'[s].req).model) # current_model
                        THEN 421 ELSE 503
      ]_vars

(* create_image has answered 503 while no engine is loaded *)
C6_Witness ==
    \E s \in 1..MaxReq :
        /\ pipeline = None
        /\ slots[s].pc = "answered"
        /\ slots[s].kind = "create_image"
        /\ Get(slots[s].resp).status = 503

(* C7: with a served name declared and an engine loaded, create_image       *)
(* answers 421 without parsing or invoking the engine when the model field  *)
(* differs from both served_model_name and current_model, and otherwise     *)
(* never answers 421 but goes on to size parsing and, the size being valid, *)
(* into generate_images.                                                    *)
C7_ModelMismatch ==
    [][\A s \in 1..MaxReq :
          (/\ DispatchStep(s)
           /\ slots'[s].kind = "create_image"
           /\ served_model_name \notin {None, Some(<<>>)}
           /\ pipeline # None) =>
              LET sl == slots'[s]
                  m == Some(Get(sl.req).model)
              IN  IF m # served_model_name /\ m # current_model
                  THEN /\ sl.pc = "answered"
                       /\ Get(sl.resp).status = 421
                       /\ sl.calls = <<>>
                       /\ ~sl.parsed
                  ELSE /\ sl.parsed
                       /\ sl.pc = "answered" => Get(sl.resp).status = 400
                       /\ parse_size_ok(Get(sl.req).size) => sl.pc = "gen"
      ]_vars

(* a request naming the loaded path, not the served name, is generating *)
C7_Witness ==
    \E s \in 1..MaxReq :
        /\ slots[s].pc = "gen"
        /\ slots[s].kind = "create_image"
        /\ Some(Get(slots[s].req).model) = current_model
        /\ current_model # served_model_name
        /\ Len(slots[s].calls) >= 1

(* the step in which load_model is called *)
LoadCallStep ==
    /\ ld.pc = "idle"
    /\ ldResult.kind = "none"
    /\ ld'.pc # "idle" \/ ldResult'.kind # "none"

(* C8: load_model(p) with pipeline set and current_model = p returns the    *)
(* resident engine, invokes no constructor and changes no state; with any   *)
(* other path it goes on to invoke a constructor, and when it returns,      *)
(* pipeline is an engine built in this call from that path and              *)
(* current_model is that path.                                              *)
C8_IdempotentLoad ==
    [][/\ LoadCallStep =>
            IF pipeline # None /\ current_model = Some(LoadPath')
            THEN /\ ldResult'.kind = "returned"
                 /\ ldResult'.engine = pipeline
                 /\ ld' = ld
                 /\ ctorLog' = <<>>
                 /\ UNCHANGED <<pipeline, current_model, served_model_name, nbuilt>>
            ELSE /\ ld'.pc \in {"dduf", "auto"}
                 /\ ldResult'.kind = "none"
                 /\ ctorLog' = <<>>
       /\ (ld.pc \in {"dduf", "auto"} /\ ld' # ld) => Len(ctorLog') = Len(ctorLog) + 1
       /\ (ld.pc # "idle" /\ ld'.pc = "idle") => Len(ctorLog') >= 1
       /\ (ld.pc # "idle" /\ ldResult'.kind = "returned") =>
            /\ current_model' = Some(ld.model_path)
            /\ pipeline' = ldResult'.engine
            /\ Get(pipeline').path = ld.model_path
            /\ Get(pipeline').id > ld.built0
            /\ pipeline # None => Get(pipeline').id >= Get(pipeline).id
      ]_vars

(* a second engine has replaced the first and a repeated call found it resident *)
C8_Witness ==
    /\ ldResult.kind = "returned"
    /\ ctorLog = <<>>
    /\ nbuilt >= 2
    /\ Get(pipeline).id = nbuilt
    /\ current_model = Some(ldResult.path)

(* C9: a request is handled only once main has reached uvicorn.run after a  *)
(* load_model call that returned, and current_model, which health reports   *)
(* as model_loaded, is set only when a load has returned: not during the    *)
(* load and not after a failed one.                                         *)
C9_StartupBlocksReadiness ==
    /\ \A s \in 1..MaxReq : slots[s].pc \notin {"free", "pending"} => mainpc = "serving"
    /\ mainpc = "serving" =>
          /\ ld.pc = "idle"
          /\ pipeline # None
          /\ current_model = Some(args.model_path)
          /\ Get(pipeline).path = args.model_path
          /\ Get(pipeline).device # "unplaced"
    /\ current_model # None =>
          /\ ld.pc = "idle"
          /\ mainpc = "serving" \/ (mainpc = "loading" /\ ldResult.kind = "returned")
    /\ \A s \in 1..MaxReq :
          (slots[s].pc = "answered" /\ slots[s].kind = "health") =>
              /\ Get(slots[s].resp).data[1].model_loaded = (current_model # None)
              /\ Get(slots[s].resp).data[1].model_loaded

(* health has answered model_loaded = true *)
C9_Witness ==
    \E s \in 1..MaxReq :
        /\ slots[s].pc = "answered"
        /\ slots[s].kind = "health"
        /\ Get(slots[s].resp).data[1].model_loaded

(* C10: once main is serving, no step changes pipeline, current_model or    *)
(* served_model_name or ends the process, whatever the handlers answer;     *)
(* served_model_name changes in one step only, main's assignment of the     *)
(* override when one is given and non-empty, else of the model path.        *)
C10_HandlersKeepState ==
    [][/\ mainpc = "serving" =>
            /\ UNCHANGED <<pipeline, current_model, served_model_name>>
            /\ mainpc' = "serving"
            /\ exitcode' = exitcode
       /\ (\E s \in 1..MaxReq : slots'[s] # slots[s]) =>
            UNCHANGED <<pipeline, current_model, served_model_name>>
       /\ served_model_name' # served_model_name =>
            /\ mainpc = "start"
            /\ served_model_name = None
            /\ served_model_name' =
                  IF args'.served_model_name \notin {None, Some(<<>>)}
                  THEN args'.served_model_name
                  ELSE Some(args'.model_path)
       /\ mainpc # "start" => served_model_name # None
      ]_vars

(* a generation failure has been answered 500 and the next request waits *)
C10_Witness ==
    \E s, t \in 1..MaxReq :
        /\ mainpc = "serving"
        /\ slots[s].pc = "answered"
        /\ slots[s].kind = "create_image"
        /\ Get(slots[s].resp).status = 500
        /\ slots[t].pc = "pending"

(* C11: when the startup load_model call has raised, main never starts the  *)
(* server; the process ends with a non-zero status having printed exactly   *)
(* one line, which begins with 'DIFFUSERS_ERROR: ', and no request has been *)
(* or will be handled; without a failed load nothing is printed.            *)
C11_StartupFailure ==
    [][/\ (mainpc = "loading" /\ ldResult.kind = "raised") => mainpc' \in {"loading", "exited"}
       /\ mainpc' = "exited" =>
            /\ mainpc = "exited" \/ (mainpc = "loading" /\ ldResult.kind = "raised")
            /\ Len(stderr') = 1
            /\ Head(stderr'[1]) = "DIFFUSERS_ERROR: "
            /\ exitcode' # 0
            /\ \A s \in 1..MaxReq : slots'[s].pc \in {"free", "pending"}
       /\ mainpc' # "exited" => (stderr' = <<>> /\ exitcode' = 0)
       /\ mainpc = "exited" => (mainpc' = "exited" /\ stderr' = stderr /\ slots' = slots)
      ]_vars

(* the process has exited on a failed load while a client was waiting *)
C11_Witness ==
    /\ mainpc = "exited"
    /\ Len(stderr) = 1
    /\ exitcode = 1
    /\ \E s \in 1..MaxReq : slots[s].pc = "pending"

(* the error a wrapper was raised for: load_model_from_dduf's RuntimeError  *)
(* wraps the error it caught                                                *)
IsDdufWrapper(e) ==
    e.type = "RuntimeError" /\ Head(e.msg) = "Failed to load DDUF file: " /\ e.context # None

OriginalError(e) == IF IsDdufWrapper(e) THEN Get(e.context) ELSE e

(* C12: the line main prints for a failed startup load is the prefix        *)
(* followed by the message of the original underlying error, also when      *)
(* load_model_from_dduf has wrapped that error.                             *)
C12_RootCauseMessage ==
    [][(mainpc = "loading" /\ mainpc' = "exited") =>
          stderr'[1] = <<"DIFFUSERS_ERROR: ">> \o OriginalError(Get(ldResult.exc)).msg
      ]_vars

(* a non-empty run of decimal digits denoting a value above zero *)
PositiveDecimal(p) ==
    p # <<>> /\ (\A k \in 1..Len(p) : p[k] \in Digits) /\ digits_value(p) > 0

(* '<W>x<H>', separator in either case, W and H positive integers *)
SizeForm(size, k) ==
    /\ size[k] \in {"x", "X"}
    /\ PositiveDecimal(SubSeq(size, 1, k - 1))
    /\ PositiveDecimal(SubSeq(size, k + 1, Len(size)))

(* C13: parse_size returns (W, H) exactly for the strings '<W>x<H>' with W  *)
(* and H positive integers, and raises ValueError for every other string,   *)
(* among them a part that is zero or negative.                              *)
C13_ParseSize ==
    \A s \in 1..MaxReq :
        (slots[s].pc = "answered" /\ slots[s].kind = "parse_size") =>
            LET size == Get(slots[s].req).size
                resp == Get(slots[s].resp)
            IN  IF \E k \in 1..Len(size) : SizeForm(size, k)
                THEN LET k == CHOOSE j \in 1..Len(size) : SizeForm(size, j)
                     IN  /\ resp.exc = None
                         /\ resp.data = <<digits_value(SubSeq(size, 1, k - 1)),
                                          digits_value(SubSeq(size, k + 1, Len(size)))>>
                ELSE /\ resp.exc # None
                     /\ Get(resp.exc).type = "ValueError"

(* a create_image request answered because the engine call or the PNG       *)
(* encoding raised inside generate_images                                   *)
GenerationFailed(s) ==
    /\ slots[s].pc = "answered"
    /\ slots[s].kind = "create_image"
    /\ slots[s].calls # <<>>
    /\ slots[s].images = <<>>

(* C14: whatever the type of the error the engine or the encoder raised     *)
(* during create_image, the answer is status 500 with a message that        *)
(* carries the cause, never status 400.                                     *)
C14_GenerationFailureIs500 ==
    \A s \in 1..MaxReq :
        GenerationFailed(s) =>
            /\ Get(slots[s].resp).status = 500
            /\ Head(Get(Get(slots[s].resp).exc).msg) = "Image generation failed: "

(* a create_image request for the 'url' format that passed the model,       *)
(* readiness and size checks and whose images were all generated            *)
UrlFormatAnswered(s) ==
    /\ slots[s].pc = "answered"
    /\ slots[s].kind = "create_image"
    /\ Get(slots[s].req).response_format = "url"
    /\ slots[s].images # <<>>

(* C15: a request with response_format 'url' is answered with status 400    *)
(* saying that the URL format is not supported, and carries no image data.  *)
C15_UrlFormatIs400 ==
    \A s \in 1..MaxReq :
        UrlFormatAnswered(s) =>
            /\ Get(slots[s].resp).status = 400
            /\ Get(slots[s].resp).data = <<>>

(* C16: the engine a successful load_model call returns, whatever the       *)
(* source type, is on the selected device and, when it has                  *)
(* enable_attention_slicing, has had it enabled.                            *)
C16_PostConstruction ==
    ldResult.kind = "returned" =>
        LET e == Get(ldResult.engine)
        IN  /\ e.device = select_device.device
            /\ e.has_slicing => e.sliced

(* C17: between load_model calls, whenever current_model is set, pipeline   *)
(* is set and holds the engine built from exactly that path and moved to    *)
(* the device, also after a load that failed.                               *)
C17_PairConsistent ==
    (ld.pc = "idle" /\ current_model # None) =>
        /\ pipeline # None
        /\ Get(pipeline).path = Get(current_model)
        /\ Get(pipeline).device # "unplaced"

(* C18: create_image tests the model mismatch first, readiness second, and  *)
(* only then parses the size: with no engine loaded a mismatched model is    *)
(* answered 421 and a matching one 503 even when the size is invalid, and in *)
(* both cases, as for any mismatch, the size is not parsed and the engine    *)
(* not invoked.                                                              *)
C18_CheckOrder ==
    [][\A s \in 1..MaxReq :
          (DispatchStep(s) /\ slots'[s].kind = "create_image") =>
              LET requested_model == Some(Get(slots'[s].req).model)
                  stopped(status) ==
                      /\ slots'[s].pc = "answered"
                      /\ Get(slots'[s].resp).status = status
                      /\ ~slots'[s].parsed
                      /\ slots'[s].calls = <<>>
              IN  IF /\ served_model_name \notin {None, Some(<<>>)}
                     /\ requested_model # served_model_name
                     /\ requested_model # current_model
                  THEN stopped(421)
                  ELSE IF pipeline = None
                  THEN stopped(503)
                  ELSE slots'[s].parsed
      ]_vars

(* a matching request with an invalid size answered 503 for want of an engine *)
C18_Witness ==
    \E s \in 1..MaxReq :
        /\ pipeline = None
        /\ slots[s].pc = "answered"
        /\ slots[s].kind = "create_image"
        /\ Get(slots[s].req).size = S_23
        /\ ~parse_size_ok(S_23)
        /\ Get(slots[s].resp).status = 503
        /\ ~slots[s].parsed

(* the (device, precision) pair the hardware calls for *)
PairForHardware(device, dtype) ==
    /\ hw.cuda => (device = "cuda" /\ dtype = "float16")
    /\ (~hw.cuda /\ hw.mps) => (device = "mps" /\ dtype = "float16")
    /\ (~hw.cuda /\ ~hw.mps) => (device = "cpu" /\ dtype = "float32")
    /\ <<device, dtype>> \in {<<"cuda", "float16">>, <<"mps", "float16">>, <<"cpu", "float32">>}

(* C19: a non-cached load_model call selects CUDA before MPS before CPU,    *)
(* half precision on a GPU and single precision on the CPU, and uses that   *)
(* one pair for every constructor call and for the device move: no engine   *)
(* is ever built in float16 for the CPU or in float32 for a GPU.            *)
C19_DeviceSelection ==
    /\ ld.pc # "idle" => PairForHardware(ld.device, ld.dtype)
    /\ \A k \in 1..Len(ctorLog) :
          ctorLog[k].dtype = IF hw.cuda \/ hw.mps THEN "float16" ELSE "float32"
    /\ \A k \in 1..Len(ctorLog) : ld.pc # "idle" => ctorLog[k].dtype = ld.dtype
    /\ (ld.pc # "idle" /\ ld.pipe # None) => Get(ld.pipe).dtype = ld.dtype
    /\ pipeline # None =>
          /\ Get(pipeline).device # "unplaced" =>
                 PairForHardware(Get(pipeline).device, Get(pipeline).dtype)
          /\ (Get(pipeline).device = "unplaced" /\ ld.pc # "idle") =>
                 Get(pipeline).dtype = ld.dtype

(* with both CUDA and MPS present the engine was built in float16 and moved *)
(* to cuda                                                                   *)
C19_Witness ==
    /\ hw.cuda
    /\ hw.mps
    /\ ldResult.kind = "returned"
    /\ ctorLog # <<>>
    /\ Get(ldResult.engine).device = "cuda"
    /\ Get(ldResult.engine).dtype = "float16"

====
